---- MODULE Spec2Model ----
(***************************************************************************)
(* Model of the matching-and-enrichment pipeline of main.py:               *)
(* SchemaDetectorAgent (detect, align), ProfileMatchingAgent (compare),    *)
(* recursive_match and recursive_match_with_full_profiles.                 *)
(*                                                                         *)
(* Python values are records [t, v]: t is the Python type, v the content   *)
(* (a string is the sequence of its characters).  Dicts are functions      *)
(* whose DOMAIN is the key set.  Scores and thresholds are in tenths       *)
(* (9 is 0.9, 11 is 1.1, 15 is 1.5).                                       *)
(*                                                                         *)
(* The text returned by LLMClient.generate is a record [kind, obj]: kind   *)
(* is the syntactic class of the text, obj the object the text spells when *)
(* it spells one.                                                          *)
(***************************************************************************)
EXTENDS Integers, Sequences, FiniteSets, TLC

VARIABLES sources, threshold, base0, rm, fp, agent, calls

vars == <<sources, threshold, base0, rm, fp, agent, calls>>

-----------------------------------------------------------------------------
(* Bounds *)

\* number of sources handed to one run (a prefix of Catalog)
NumSources == 2

\* number of detect calls made on the stand-alone agent of SpecDetect
MaxDetectCalls == 4

-----------------------------------------------------------------------------
(* Python values *)

None == [t |-> "NoneType", v |-> <<>>]
EmptyList == [t |-> "list", v |-> <<>>]
Str(s) == [t |-> "str", v |-> s]
EmptyDict == [k \in {} |-> ""]

Whitespace == {" "}

RECURSIVE lstrip(_)
lstrip(s) == IF s # <<>> /\ Head(s) \in Whitespace THEN lstrip(Tail(s)) ELSE s

RECURSIVE rstrip(_)
rstrip(s) ==
    IF s # <<>> /\ s[Len(s)] \in Whitespace
    THEN rstrip(SubSeq(s, 1, Len(s) - 1))
    ELSE s

\* v.strip() if isinstance(v, str) else v
strip(v) == IF v.t = "str" THEN Str(rstrip(lstrip(v.v))) ELSE v

\* base.data[k] in (None, "", [])
IsEmptyValue(v) == v \in {None, Str(<<>>), EmptyList}

\* dict.update
Update(d, e) ==
    [k \in DOMAIN d \cup DOMAIN e |-> IF k \in DOMAIN e THEN e[k] ELSE d[k]]

-----------------------------------------------------------------------------
(* Data sources: name, infer_schema() and get_profiles() of a DataSource.  *)
(* A profile is the sequence of its (field, value) items in dict order.    *)

Item(k, v) == [k |-> k, v |-> v]

Catalog ==
    << [name |-> "crm",
        schema |-> <<"full_name", "mail", "tel">>,
        rows |-> << <<Item("full_name", Str(<<" ", "a">>)),
                      Item("mail", Str(<<"x", " ">>)),
                      Item("tel", Str(<<"7">>))>>,
                    <<Item("full_name", Str(<<"b">>)),
                      Item("mail", Str(<<" ">>)),
                      Item("tel", EmptyList)>> >>],
       [name |-> "crm",
        schema |-> <<"mail", "tel">>,
        rows |-> << <<Item("mail", Str(<<"y">>)),
                      Item("tel", Str(<<"8">>))>> >>],
       [name |-> "kyc",
        schema |-> <<"full_name", "tel">>,
        rows |-> << <<Item("full_name", Str(<<"a">>)),
                      Item("tel", None)>> >>],
       [name |-> "kyc",
        schema |-> <<>>,
        rows |-> << <<>> >>] >>

infer_schema(src) == src.schema
get_profiles(src) == src.rows

-----------------------------------------------------------------------------
(* SchemaDetectorAgent.detect: cache keyed by source.name *)

\* mutant of detect: the cache is written but never read
detect_uncached(cache, source) ==
    [fields |-> infer_schema(source),
     cache |-> Update(cache, [n \in {source.name} |-> infer_schema(source)]),
     inferred |-> TRUE]

detect(cache, source) ==
    IF source.name \in DOMAIN cache
    THEN [fields |-> cache[source.name], cache |-> cache, inferred |-> FALSE]
    ELSE [fields |-> infer_schema(source),
          cache |-> Update(cache, [n \in {source.name} |-> infer_schema(source)]),
          inferred |-> TRUE]

-----------------------------------------------------------------------------
(* Texts returned by LLMClient.generate.  kind:                            *)
(*   "empty"       the empty string (also what generate returns on error)  *)
(*   "prose"       text with no JSON in it                                 *)
(*   "json_scalar" a JSON value that is no object: 42, null, [], "x"       *)
(*   "json_obj"    a bare JSON object                                      *)
(*   "fenced_obj"  prose around a ``` fenced JSON object                   *)
(*   "prose_obj"   prose followed by an unfenced JSON object               *)
(*   "py_obj"      a dict literal in single quotes                         *)
(*   "deep"        brackets nested beyond the interpreter's recursion limit*)

Text(kind, obj) == [kind |-> kind, obj |-> obj]

\* a parsed value: a dict (isdict, d its items) or any other value
Dict(d) == [isdict |-> TRUE, d |-> d]
NonDict == [isdict |-> FALSE, d |-> EmptyDict]

Returned(val) == [exc |-> "none", val |-> val]
Raised(exc) == [exc |-> exc, val |-> NonDict]

\* match = re.search(r'```(?:json)?\s*(\{.*?\})\s*```', resp, re.DOTALL)
\* json_str = match.group(1) if match else resp.strip()
\* json.loads(json_str)
json_loads(resp) ==
    CASE resp.kind \in {"json_obj", "fenced_obj"} -> Returned(Dict(resp.obj))
      [] resp.kind = "json_scalar" -> Returned(NonDict)
      [] resp.kind = "deep" -> Raised("RecursionError")
      [] OTHER -> Raised("JSONDecodeError")

\* ast.literal_eval(json_str), reached only after a JSONDecodeError
literal_eval(resp) ==
    CASE resp.kind = "py_obj" -> Returned(Dict(resp.obj))
      [] OTHER -> Raised("SyntaxError")

\* SchemaDetectorAgent.align, from the response on
align(resp) ==
    LET loaded == json_loads(resp)
    IN  IF loaded.exc = "none" THEN loaded
        ELSE IF loaded.exc = "JSONDecodeError"
        THEN LET lit == literal_eval(resp)
             IN  IF lit.exc = "none" THEN lit ELSE Returned(Dict(EmptyDict))
        ELSE loaded

\* mutant of compare: the fallback is a full score
compare_full(resp) ==
    LET loaded == json_loads(resp)
    IN  IF loaded.exc = "none" THEN loaded
        ELSE Returned(Dict([score |-> 10, reason |-> resp]))

\* ProfileMatchingAgent.compare, from the response on
compare(resp) ==
    LET loaded == json_loads(resp)
    IN  IF loaded.exc = "none" THEN loaded
        ELSE Returned(Dict([score |-> 0, reason |-> resp]))

\* mappings target field -> base field an aligner may answer
MapGood ==
    [k \in {"full_name", "mail", "tel"} |->
        CASE k = "full_name" -> "name" [] k = "mail" -> "email" [] OTHER -> "phone"]
MapCollide == [k \in {"full_name", "mail", "tel"} |-> "dob"]
MapPartial == [k \in {"mail", "tel"} |-> IF k = "mail" THEN "" ELSE "phone"]

AlignResponses ==
    { Text("json_obj", MapGood), Text("fenced_obj", MapCollide),
      Text("py_obj", MapPartial), Text("empty", EmptyDict), Text("json_scalar", EmptyDict),
      Text("deep", EmptyDict) }

CompareResponses ==
    { Text("json_obj", [score |-> 3, reason |-> "weak"]),
      Text("fenced_obj", [score |-> 9, reason |-> "strong"]),
      Text("json_obj", [score |-> 15, reason |-> "sure"]),
      Text("json_obj", [reason |-> "unscored"]),
      Text("prose", EmptyDict), Text("empty", EmptyDict),
      Text("json_scalar", EmptyDict) }

Thresholds == {0, 5, 11}

\* the caller's base profile: a filled field, the three empty values, and no
\* phone field
BaseProfiles ==
    { [k \in {"name", "email", "dob", "tags"} |->
          CASE k = "name" -> Str(<<"a">>) [] k = "email" -> Str(<<>>)
            [] k = "dob" -> None [] OTHER -> EmptyList] }

-----------------------------------------------------------------------------
(* Pieces of the body of recursive_match, which                            *)
(* recursive_match_with_full_profiles repeats line for line.               *)

\* mutant of normalize_items: a field the mapping omits is kept under its own name
RECURSIVE normalize_items_keep(_, _, _)
normalize_items_keep(mapping, items, normalized) ==
    IF items = <<>> THEN normalized
    ELSE LET k == Head(items).k
             v == Head(items).v
             base_field == IF k \in DOMAIN mapping /\ mapping[k] # ""
                           THEN mapping[k] ELSE k
         IN  normalize_items_keep(mapping, Tail(items),
                 Update(normalized, [f \in {base_field} |-> strip(v)]))

\* for k, v in p.data.items():
\*     base_field = mapping.get(k)
\*     if base_field: normalized[base_field] = v.strip() if isinstance(v, str) else v
RECURSIVE normalize_items(_, _, _)
normalize_items(mapping, items, normalized) ==
    IF items = <<>> THEN normalized
    ELSE LET k == Head(items).k
             v == Head(items).v
         IN  IF k \in DOMAIN mapping /\ mapping[k] # ""
             THEN normalize_items(mapping, Tail(items),
                      Update(normalized, [f \in {mapping[k]} |-> strip(v)]))
             ELSE normalize_items(mapping, Tail(items), normalized)

\* mapping.get raises AttributeError when align returned something that is no dict
normalize(mapping, items) ==
    IF ~mapping.isdict
    THEN IF items = <<>> THEN Returned(Dict(EmptyDict)) ELSE Raised("AttributeError")
    ELSE Returned(Dict(normalize_items(mapping.d, items, EmptyDict)))

\* mutant of enrich: only a missing field is filled, an empty one is left
enrich_missing_only(base, normalized) ==
    [k \in DOMAIN base \cup DOMAIN normalized |->
        IF k \notin DOMAIN base THEN normalized[k] ELSE base[k]]

\* mutant of enrich: the guard of the assignment is lost
enrich_overwrite(base, normalized) == Update(base, normalized)

\* for k, v in normalized.items():
\*     if k not in base.data or base.data[k] in (None, "", []): base.data[k] = v
enrich(base, normalized) ==
    [k \in DOMAIN base \cup DOMAIN normalized |->
        IF k \in DOMAIN normalized /\ (k \notin DOMAIN base \/ IsEmptyValue(base[k]))
        THEN normalized[k]
        ELSE base[k]]

\* mutant of insert_sorted: a result goes before the results of equal score
RECURSIVE insert_unstable(_, _)
insert_unstable(x, sortedSeq) ==
    IF sortedSeq = <<>> THEN <<x>>
    ELSE IF Head(sortedSeq).score > x.score
         THEN <<Head(sortedSeq)>> \o insert_unstable(x, Tail(sortedSeq))
         ELSE <<x>> \o sortedSeq

\* sorted(results, key=lambda x: x["score"], reverse=True): a stable sort
RECURSIVE insert_sorted(_, _)
insert_sorted(x, sortedSeq) ==
    IF sortedSeq = <<>> THEN <<x>>
    ELSE IF Head(sortedSeq).score >= x.score
         THEN <<Head(sortedSeq)>> \o insert_sorted(x, Tail(sortedSeq))
         ELSE <<x>> \o sortedSeq

RECURSIVE sorted_by_score(_)
sorted_by_score(results) ==
    IF results = <<>> THEN <<>>
    ELSE insert_sorted(results[Len(results)],
                       sorted_by_score(SubSeq(results, 1, Len(results) - 1)))

\* The state of one call before its first statement.  pc, i, j: the position in
\* the loops; base, cache, mapping, results: the objects of the same names;
\* ret: the list returned; exc, at: the exception that ended the call and the
\* expression that raised it.  History kept for the properties: requests (the
\* align and compare requests made), returns (what align and compare returned
\* for which text), inferred (the sources whose infer_schema ran), rows (one
\* entry per row whose comparison was used), keys_after (the base's keys when
\* each source was finished).
Start(base) ==
    [pc |-> "source", i |-> 1, j |-> 0, base |-> base, cache |-> EmptyDict,
     mapping |-> Dict(EmptyDict), results |-> <<>>, ret |-> <<>>, exc |-> "none",
     at |-> "none", requests |-> <<>>, returns |-> <<>>, inferred |-> <<>>,
     rows |-> <<>>, keys_after |-> <<>>]

\* the next iteration of `for p in src.get_profiles()`, or of `for src in sources`
next_profile(r) ==
    IF r.j < Len(get_profiles(sources[r.i]))
    THEN [r EXCEPT !.pc = "row", !.j = r.j + 1]
    ELSE IF r.i < Len(sources)
    THEN [r EXCEPT !.pc = "source", !.i = r.i + 1, !.j = 0,
                   !.keys_after = Append(r.keys_after, DOMAIN r.base)]
    ELSE [r EXCEPT !.pc = "return",
                   !.keys_after = Append(r.keys_after, DOMAIN r.base)]

raise(r, exc, at) == [r EXCEPT !.pc = "raised", !.exc = exc, !.at = at]

\* mutant of base_fields: the keys are read once, before the loop
base_fields_stale(r) == DOMAIN base0

\* base_fields = list(base.data.keys()), at the top of each source's iteration
base_fields(r) == DOMAIN r.base

\* base_fields = list(base.data.keys()); detect; align
begin_source(r, resp) ==
    LET src == sources[r.i]
        det == detect(r.cache, src)
        target_fields == det.fields
        mapping == align(resp)
        called == [r EXCEPT
                     !.cache = det.cache,
                     !.inferred = IF det.inferred THEN Append(r.inferred, r.i)
                                  ELSE r.inferred,
                     !.requests = Append(r.requests,
                         [op |-> "align", a |-> base_fields(r), b |-> target_fields]),
                     !.returns = Append(r.returns,
                         [op |-> "align", resp |-> resp, out |-> mapping])]
    IN  IF mapping.exc # "none" THEN raise(called, mapping.exc, "align")
        ELSE next_profile([called EXCEPT !.mapping = mapping.val])

-----------------------------------------------------------------------------
(* recursive_match *)

rm_source(r, resp) == begin_source(r, resp)

\* score = res.get("score", 0)
get_score(res) == IF "score" \in DOMAIN res THEN res.score ELSE 0

\* one iteration of the row loop; extra is what res.update adds beside
\* source and candidate
match_row(r, resp, extra) ==
    LET src == sources[r.i]
        p == get_profiles(src)[r.j]
        normalized == normalize(r.mapping, p)
    IN  IF normalized.exc # "none" THEN raise(r, normalized.exc, "mapping.get")
        ELSE
        LET candidate == normalized.val.d
            res == compare(resp).val
            asked == [r EXCEPT
                        !.requests = Append(r.requests,
                            [op |-> "compare", a |-> r.base, b |-> candidate]),
                        !.returns = Append(r.returns,
                            [op |-> "compare", resp |-> resp, out |-> compare(resp)])]
        IN  IF ~res.isdict THEN raise(asked, "AttributeError", "res.get")
            ELSE
            LET score == get_score(res.d)
                accepted == score >= threshold
                base == IF accepted THEN enrich(r.base, candidate) ELSE r.base
                results ==
                    IF accepted
                    THEN Append(r.results,
                             Update(res.d, Update([source |-> src.name,
                                                   candidate |-> candidate], extra)))
                    ELSE r.results
            IN  next_profile([asked EXCEPT
                    !.base = base,
                    !.results = results,
                    !.rows = Append(r.rows,
                        [i |-> r.i, j |-> r.j, resp |-> resp, res |-> res.d,
                         mapping |-> r.mapping.d, normalized |-> candidate,
                         before |-> r.base, after |-> base,
                         emitted |-> Len(results) > Len(r.results)])])

\* mutant of rm_row: the enrichment is not under the threshold test
rm_row_enrich_always(r, resp) ==
    LET done == match_row(r, resp, EmptyDict)
        p == get_profiles(sources[r.i])[r.j]
    IN  IF done.pc = "raised" THEN done
        ELSE [done EXCEPT !.base = enrich(r.base, normalize(r.mapping, p).val.d)]

rm_row(r, resp) == match_row(r, resp, EmptyDict)

\* return sorted(...): x["score"] raises KeyError on a result without a score
sort_results(r) ==
    IF \E n \in 1..Len(r.results) : "score" \notin DOMAIN r.results[n]
    THEN raise(r, "KeyError", "sorted")
    ELSE [r EXCEPT !.pc = "done", !.ret = sorted_by_score(r.results)]

rm_return(r) == sort_results(r)

-----------------------------------------------------------------------------
(* recursive_match_with_full_profiles *)

fp_source(r, resp) == begin_source(r, resp)

\* mutant of fp_row: the variant reports the match but does not enrich
fp_row_report_only(r, resp) ==
    [match_row(r, resp,
        [full_profile |-> get_profiles(sources[r.i])[r.j],
         field_mapping |-> r.mapping.d]) EXCEPT !.base = r.base]

\* the row loop of recursive_match_with_full_profiles: that of recursive_match,
\* with full_profile and field_mapping added by res.update
fp_row(r, resp) ==
    match_row(r, resp,
        [full_profile |-> get_profiles(sources[r.i])[r.j],
         field_mapping |-> r.mapping.d])

fp_return(r) == sort_results(r)

-----------------------------------------------------------------------------
(* The two functions are run side by side on the same base profile, source *)
(* list, threshold and responses: the n-th text the service returns is the *)
(* same for both.                                                          *)

Init ==
    /\ sources = SubSeq(Catalog, 1, NumSources)
    /\ threshold \in Thresholds
    /\ base0 \in BaseProfiles
    /\ rm = Start(base0)
    /\ fp = Start(base0)
    /\ agent = EmptyDict
    /\ calls = <<>>

Source ==
    /\ rm.pc = "source"
    /\ \E resp \in AlignResponses :
          /\ rm' = rm_source(rm, resp)
          /\ fp' = IF fp.pc = "source" THEN fp_source(fp, resp) ELSE fp
    /\ UNCHANGED <<sources, threshold, base0, agent, calls>>

Row ==
    /\ rm.pc = "row"
    /\ \E resp \in CompareResponses :
          /\ rm' = rm_row(rm, resp)
          /\ fp' = IF fp.pc = "row" THEN fp_row(fp, resp) ELSE fp
    /\ UNCHANGED <<sources, threshold, base0, agent, calls>>

Return ==
    /\ rm.pc = "return"
    /\ rm' = rm_return(rm)
    /\ fp' = IF fp.pc = "return" THEN fp_return(fp) ELSE fp
    /\ UNCHANGED <<sources, threshold, base0, agent, calls>>

Next == Source \/ Row \/ Return

Spec == Init /\ [][Next]_vars

-----------------------------------------------------------------------------
(* The schema endpoint of app.py: one SchemaDetectorAgent, one detect call *)
(* per requested source, in any order and with any repetition.             *)

api_schema_detect ==
    /\ Len(calls) < MaxDetectCalls
    /\ \E n \in 1..Len(Catalog) :
          LET d == detect(agent, Catalog[n])
          IN  /\ agent' = d.cache
              /\ calls' = Append(calls,
                     [src |-> n, name |-> Catalog[n].name, fields |-> d.fields,
                      inferred |-> d.inferred])
    /\ UNCHANGED <<sources, threshold, base0, rm, fp>>

SpecDetect == Init /\ [][api_schema_detect]_vars

-----------------------------------------------------------------------------
(* Properties *)

Range(f) == {f[k] : k \in DOMAIN f}
IsAlign(q) == q.op = "align"
IsCompare(q) == q.op = "compare"
IsEmitted(e) == e.emitted

RECURSIVE WithScore(_, _)
WithScore(seq, s) ==
    IF seq = <<>> THEN <<>>
    ELSE IF Head(seq).score = s THEN <<Head(seq)>> \o WithScore(Tail(seq), s)
         ELSE WithScore(Tail(seq), s)

\* the keys of a MatchResult of recursive_match
ResultKeys == {"score", "reason", "source", "candidate"}

\* the texts json.loads rejects
Unparseable == {"empty", "prose", "prose_obj", "py_obj"}

\* the texts in which no JSON object is written
NoJsonObject == {"empty", "prose", "json_scalar", "deep"}

\* C1 (monotonic enrichment): no step of recursive_match changes or removes
\* a field of the base profile that holds a value other than None, "" or [].
C1_MonotonicEnrichment ==
    [][\A k \in DOMAIN rm.base :
          ~IsEmptyValue(rm.base[k]) =>
              k \in DOMAIN rm'.base /\ rm'.base[k] = rm.base[k]]_vars

\* an accepted candidate carried another value for a field that was filled
C1_Witness ==
    \E n \in 1..Len(rm.rows) :
        LET e == rm.rows[n]
        IN  /\ e.emitted
            /\ \E k \in DOMAIN e.normalized \cap DOMAIN e.before :
                  ~IsEmptyValue(e.before[k]) /\ e.normalized[k] # e.before[k]

\* C2 (threshold correctness): a row is emitted iff its score is >= the
\* threshold; with threshold 0 every row with a parseable score is emitted
\* and with threshold 1.1 no row is emitted.
C2_ThresholdCorrectness ==
    /\ \A n \in 1..Len(rm.rows) :
          rm.rows[n].emitted <=> get_score(rm.rows[n].res) >= threshold
    /\ threshold = 0 =>
          \A n \in 1..Len(rm.rows) :
              "score" \in DOMAIN rm.rows[n].res => rm.rows[n].emitted
    /\ threshold = 11 => \A n \in 1..Len(rm.rows) : ~rm.rows[n].emitted

\* C3 (order dependence): the base fields of the n-th align request are the
\* keys the base profile had when source n-1 was finished (the caller's keys
\* for the first source), so they hold every key any earlier row left in it.
C3_OrderDependence ==
    LET reqs == SelectSeq(rm.requests, IsAlign)
    IN  \A n \in 1..Len(reqs) :
            /\ reqs[n].a = IF n = 1 THEN DOMAIN base0 ELSE rm.keys_after[n - 1]
            /\ \A m \in 1..Len(rm.rows) :
                  rm.rows[m].i < n => DOMAIN rm.rows[m].after \subseteq reqs[n].a

\* the second source is aligned against a field the first source added
C3_Witness ==
    LET reqs == SelectSeq(rm.requests, IsAlign)
    IN  /\ Len(reqs) >= 2
        /\ \E f \in reqs[2].a : f \notin DOMAIN base0

\* C4 (stable ranking): the returned list is the emitted results in
\* descending score order, results of equal score in the order of emission.
C4_StableRanking ==
    rm.pc = "done" =>
        /\ Len(rm.ret) = Len(rm.results)
        /\ \A n \in 1..(Len(rm.ret) - 1) : rm.ret[n].score >= rm.ret[n + 1].score
        /\ \A n \in 1..Len(rm.results) :
              WithScore(rm.ret, rm.results[n].score)
                  = WithScore(rm.results, rm.results[n].score)

\* a returned list with a tie between results of different rows, ranked
\* above a result that was emitted before them
C4_Witness ==
    /\ rm.pc = "done"
    /\ Len(rm.ret) >= 3
    /\ rm.ret[1].score = rm.ret[2].score
    /\ rm.ret[1].candidate # rm.ret[2].candidate
    /\ rm.results[1].score < rm.ret[1].score

\* C5 (mapping gating): every key of a row's normalized form is the
\* mapping's value for a field of the row, with that field's stripped value;
\* the mapping is the one align returned for the row's source; the comparator
\* gets exactly the normalized form; a base field the row changed or added
\* is a value of the mapping.
C5_MappingGating ==
    LET aligned == SelectSeq(rm.returns, IsAlign)
        compared == SelectSeq(rm.requests, IsCompare)
    IN  \A n \in 1..Len(rm.rows) :
            LET e == rm.rows[n]
                p == get_profiles(sources[e.i])[e.j]
            IN  /\ e.mapping = aligned[e.i].out.val.d
                /\ compared[n].b = e.normalized
                /\ \A f \in DOMAIN e.normalized :
                      \E m \in 1..Len(p) :
                          /\ p[m].k \in DOMAIN e.mapping
                          /\ e.mapping[p[m].k] = f
                          /\ e.normalized[f] = strip(p[m].v)
                /\ \A f \in DOMAIN e.after :
                      (f \notin DOMAIN e.before \/ e.after[f] # e.before[f])
                          => f \in Range(e.mapping)

\* an accepted row, one of whose fields the mapping omits, enriched the base
C5_Witness ==
    \E n \in 1..Len(rm.rows) :
        LET e == rm.rows[n]
            p == get_profiles(sources[e.i])[e.j]
        IN  /\ e.emitted
            /\ e.after # e.before
            /\ \E m \in 1..Len(p) : p[m].k \notin DOMAIN e.mapping

\* C6 (cache idempotence): every detect call returns what infer_schema gave
\* on the first call with that name, and only that first call runs
\* infer_schema.
C6_CacheIdempotence ==
    \A n \in 1..Len(calls) :
        LET first == CHOOSE m \in 1..n :
                        /\ calls[m].name = calls[n].name
                        /\ \A l \in 1..(m - 1) : calls[l].name # calls[n].name
        IN  /\ calls[n].fields = calls[first].fields
            /\ calls[first].fields = infer_schema(Catalog[calls[first].src])
            /\ calls[n].inferred = (n = first)

\* a later call with a known name and a source of other content
C6_Witness ==
    \E n \in 1..Len(calls) :
        /\ ~calls[n].inferred
        /\ infer_schema(Catalog[calls[n].src]) # calls[n].fields

\* C7 as claimed (malformed response is no match, for every threshold): a
\* row whose comparison text is empty or unparseable gets score 0.0 and the
\* text as reason, raises nothing, is not emitted and leaves the base alone.
C7_MalformedIsNoMatch ==
    /\ \A n \in 1..Len(rm.rows) :
          LET e == rm.rows[n]
          IN  e.resp.kind \in Unparseable =>
                  /\ e.res = [score |-> 0, reason |-> e.resp]
                  /\ ~e.emitted
                  /\ e.after = e.before
    /\ (rm.pc = "raised" /\ rm.at = "res.get") =>
          rm.returns[Len(rm.returns)].resp.kind \notin Unparseable

\* C7 as amended: score 0.0, the text as reason and no exception for every
\* threshold; not emitted and the base left alone when the threshold is > 0.
C7_MalformedIsNoMatchAboveZero ==
    /\ \A n \in 1..Len(rm.rows) :
          LET e == rm.rows[n]
          IN  e.resp.kind \in Unparseable =>
                  /\ e.res = [score |-> 0, reason |-> e.resp]
                  /\ threshold > 0 => ~e.emitted /\ e.after = e.before
    /\ (rm.pc = "raised" /\ rm.at = "res.get") =>
          rm.returns[Len(rm.returns)].resp.kind \notin Unparseable

\* a row with an unparseable comparison text, under a positive threshold,
\* whose candidate had something to add to the base
C7_Witness ==
    /\ threshold > 0
    /\ \E n \in 1..Len(rm.rows) :
          LET e == rm.rows[n]
          IN  /\ e.resp.kind \in Unparseable
              /\ enrich(e.before, e.normalized) # e.before

\* C8 (fail-open parsing): align and compare never raise, and for a text
\* with no JSON object in it align returns {} and compare returns
\* {score: 0.0, reason: text}.
C8_FailOpenParsing ==
    \A n \in 1..Len(rm.returns) :
        LET c == rm.returns[n]
        IN  /\ c.out.exc = "none"
            /\ c.resp.kind \in NoJsonObject =>
                  c.out.val = IF c.op = "align" THEN Dict(EmptyDict)
                              ELSE Dict([score |-> 0, reason |-> c.resp])

C10_ScoreRange ==
    /\ \A n \in 1..Len(rm.returns) :
          LET c == rm.returns[n]
          IN  (c.op = "compare" /\ "score" \in DOMAIN c.out.val.d) =>
                  c.out.val.d.score \in 0..10
    /\ \A n \in 1..Len(rm.results) :
          "score" \in DOMAIN rm.results[n] => rm.results[n].score \in 0..10

\* the rows of the run in processing order: source order, then row order
RECURSIVE RowsFrom(_, _)
RowsFrom(i, j) ==
    IF i > Len(sources) THEN <<>>
    ELSE IF j > Len(get_profiles(sources[i])) THEN RowsFrom(i + 1, 1)
    ELSE <<[i |-> i, j |-> j]>> \o RowsFrom(i, j + 1)

\* C11 (one comparison per row): the compare requests of a run are one per
\* row, in processing order, each with the row's normalized form as the
\* candidate (the empty profile when nothing is mapped), and when the run
\* has ended every row has been compared.
C11_OneComparisonPerRow ==
    LET compared == SelectSeq(rm.requests, IsCompare)
        all == RowsFrom(1, 1)
    IN  /\ Len(compared) <= Len(all)
        /\ Len(rm.rows) <= Len(compared) /\ Len(compared) <= Len(rm.rows) + 1
        /\ \A n \in 1..Len(rm.rows) :
              /\ rm.rows[n].i = all[n].i /\ rm.rows[n].j = all[n].j
              /\ compared[n].b = rm.rows[n].normalized
        /\ rm.pc = "row" => all[Len(compared) + 1] = [i |-> rm.i, j |-> rm.j]
        /\ rm.pc \in {"done", "raised"} => Len(compared) = Len(all)

\* The part of C11 that the code keeps: the same, with "every row has been
\* compared" only for the runs that reach the return statement.
C11_ComparedInOrderUntilRaise ==
    LET compared == SelectSeq(rm.requests, IsCompare)
        all == RowsFrom(1, 1)
    IN  /\ Len(compared) <= Len(all)
        /\ Len(rm.rows) <= Len(compared) /\ Len(compared) <= Len(rm.rows) + 1
        /\ \A n \in 1..Len(rm.rows) :
              /\ rm.rows[n].i = all[n].i /\ rm.rows[n].j = all[n].j
              /\ compared[n].b = rm.rows[n].normalized
        /\ rm.pc = "row" => all[Len(compared) + 1] = [i |-> rm.i, j |-> rm.j]
        /\ (rm.pc \in {"return", "done"} \/ rm.at = "sorted") =>
              Len(compared) = Len(all)

\* a row with nothing mapped was compared against the empty profile
C11_EmptyCandidateCompared ==
    \E n \in 1..Len(rm.rows) :
        /\ rm.rows[n].normalized = EmptyDict
        /\ SelectSeq(rm.requests, IsCompare)[n].b = EmptyDict

\* C12 (enrichment only on acceptance): no step removes a field of the base
\* profile; a step that changes the base is a row step that emits a result,
\* and each field it changes or adds gets the value the result's candidate
\* has for it; a row whose score is below the threshold, and the detect,
\* align, compare and sort steps, leave the base as it is.
C12_EnrichmentOnlyOnAcceptance ==
    [][/\ DOMAIN rm.base \subseteq DOMAIN rm'.base
       /\ rm'.base # rm.base =>
             /\ rm.pc = "row"
             /\ Len(rm'.results) = Len(rm.results) + 1
             /\ get_score(rm'.results[Len(rm'.results)]) >= threshold
             /\ \A k \in DOMAIN rm'.base :
                   (k \notin DOMAIN rm.base \/ rm'.base[k] # rm.base[k]) =>
                       LET cand == rm'.results[Len(rm'.results)].candidate
                       IN  k \in DOMAIN cand /\ rm'.base[k] = cand[k]
       /\ (Len(rm'.rows) = Len(rm.rows) + 1
             /\ get_score(rm'.rows[Len(rm'.rows)].res) < threshold) =>
             rm'.base = rm.base]_vars

\* a rejected row whose candidate had something to add, and an accepted row
\* that changed the base
C12_Witness ==
    /\ \E n \in 1..Len(rm.rows) :
          /\ ~rm.rows[n].emitted
          /\ get_score(rm.rows[n].res) < threshold
          /\ enrich(rm.rows[n].before, rm.rows[n].normalized) # rm.rows[n].before
    /\ \E n \in 1..Len(rm.rows) :
          rm.rows[n].emitted /\ rm.rows[n].after # rm.rows[n].before

\* the accepted rows of run r that carry a non-empty value for field k
Givers(r, k) ==
    {n \in 1..Len(r.rows) :
        /\ r.rows[n].emitted
        /\ k \in DOMAIN r.rows[n].normalized
        /\ ~IsEmptyValue(r.rows[n].normalized[k])}

\* first accepted value wins in run r
FirstWins(r) ==
    \A k \in UNION {DOMAIN r.rows[n].normalized : n \in 1..Len(r.rows)} :
        ((k \notin DOMAIN base0 \/ IsEmptyValue(base0[k])) /\ Givers(r, k) # {}) =>
            LET first == CHOOSE n \in Givers(r, k) : \A m \in Givers(r, k) : n <= m
            IN  k \in DOMAIN r.base /\ r.base[k] = r.rows[first].normalized[k]

\* C13 (first accepted value wins): for a field that was absent or empty in
\* the caller's base profile, once accepted rows carry a non-empty value for
\* it the base holds the value of the first of them in processing order,
\* whatever the scores; in recursive_match and in the variant alike.
C13_FirstAcceptedValueWins == FirstWins(rm) /\ FirstWins(fp)

\* the run returned; two accepted rows gave different values for a field the
\* caller left empty or absent, and the later one, of higher score, is ranked
\* first
C13_Witness ==
    /\ rm.pc = "done"
    /\ \E k \in {"email", "phone", "dob"} :
          \E n \in Givers(rm, k) : \E m \in Givers(rm, k) :
              /\ n < m
              /\ \A l \in Givers(rm, k) : n <= l
              /\ rm.rows[n].normalized[k] # rm.rows[m].normalized[k]
              /\ rm.rows[m].res.score > rm.rows[n].res.score
              /\ rm.ret[1].candidate = rm.rows[m].normalized
              /\ rm.ret[1].score = rm.rows[m].res.score

====
